---- MODULE Spec2Model ----
(***************************************************************************)
(* Model of the order-book crate: OrderBook (src/src/order_book.rs), the   *)
(* MarketDepthCache (src/src/market_depth_cache.rs), the value types       *)
(* (src/src/types.rs) and the caller protocol of the crate documentation   *)
(* and of test_concurrent_access_smoke_test: the book sits behind one      *)
(* RwLock, the cache owns one RwLock per side.                             *)
(*                                                                         *)
(* A Decimal price is an integer number of ticks, TicksPerUnit ticks to    *)
(* the unit: rust_decimal compares and orders by numeric value, so the     *)
(* tick count is the BTreeMap key.  A u64 is a number in 0..U64Max, the    *)
(* width scaled down so that the model reaches the wrap-around.            *)
(***************************************************************************)
EXTENDS Integers, Sequences, FiniteSets, TLC

\* ------------------------------------------------------------ bounds
NumThreads == 2
MaxOrders == 2
MaxBookOrders == 3
TicksPerUnit == 2
NegTicks == 1
MaxTick == 2
U64Max == 2
MaxClears == 1
MaxReads == 2

Threads == 1..NumThreads
NoThread == 0

\* ------------------------------------------------------------ value types
Side == {"Bid", "Ask"}
Prices == (0 - NegTicks)..MaxTick
Quantities == 0..U64Max
Order == [price : Prices, quantity : Quantities, side : Side]
OrderEvent == [price : Prices, quantity_delta : Quantities, side : Side]
\* The orders the callers of the full specification submit: two prices in two levels,
\* a small and the largest quantity.
SmallOrders == [price : {MaxTick - 1, MaxTick}, quantity : {1, U64Max}, side : Side]

None == <<>>
Some(x) == <<x>>
Unwrap(o) == o[1]

\* The f64 prices handed to Order::new: a finite value in the range of Decimal, given by
\* the ticks of the Decimal it converts to, or a value that has no Decimal.
F64 == [kind : {"finite"}, ticks : Prices]
           \cup [kind : {"nan", "infinite", "out_of_range"}, ticks : {0}]
\* Decimal::try_from(f64): Err for a value that is not finite or is out of range.
Decimal_try_from(value) ==
    IF value.kind = "finite"
    THEN [ok |-> TRUE, value |-> value.ticks]
    ELSE [ok |-> FALSE, value |-> 0]
\* Order::new: Decimal::try_from(price).unwrap() panics on Err.
Order_new(price, quantity, side) ==
    [panic |-> ~Decimal_try_from(price).ok,
     order |-> [price |-> Decimal_try_from(price).value,
                quantity |-> quantity,
                side |-> side]]

\* BTreeMap<K, V>: a function whose domain is the set of keys present.
EmptyMap == [k \in {} |-> 0]
MapInsert(m, k, v) == [x \in (DOMAIN m) \cup {k} |-> IF x = k THEN v ELSE m[x]]
MaxKey(m) == CHOOSE k \in DOMAIN m : \A j \in DOMAIN m : j <= k
MinKey(m) == CHOOSE k \in DOMAIN m : \A j \in DOMAIN m : k <= j
\* Mutant: an empty side reports the default price instead of None.
LastKey_or_zero(m) == IF DOMAIN m = {} THEN Some(0) ELSE Some(MaxKey(m))

\* keys().next_back().copied() and keys().next().copied()
LastKey(m) == IF DOMAIN m = {} THEN None ELSE Some(MaxKey(m))
FirstKey(m) == IF DOMAIN m = {} THEN None ELSE Some(MinKey(m))

\* parking_lot::RwLock: one writer or any number of readers.
FreeLock == [writer |-> NoThread, readers |-> {}]
CanWrite(l) == l.writer = NoThread /\ l.readers = {}
\* Mutant: a reader does not wait for the writer.
CanRead_always(l) == TRUE

CanRead(l) == l.writer = NoThread
LockWrite(l, t) == [l EXCEPT !.writer = t]
LockRead(l, t) == [l EXCEPT !.readers = @ \cup {t}]
\* Mutant: a write guard is leaked instead of dropped.
Unlock_leaks_writer(l, t) == [writer |-> l.writer, readers |-> l.readers \ {t}]

Unlock(l, t) ==
    [writer |-> IF l.writer = t THEN NoThread ELSE l.writer, readers |-> l.readers \ {t}]

VARIABLES
    bids, asks,                      \* OrderBook
    aggregated_bid_depth,            \* MarketDepthCache
    aggregated_ask_depth,
    book_lock,                       \* the caller's RwLock<OrderBook>
    bid_depth_lock, ask_depth_lock,  \* the cache's two RwLocks
    overflow_checks,                 \* build profile: overflow checks compiled in or not
    pc, event, query, bid_depth_snapshot, ret,   \* each thread's position and locals
    inserted, event_id, applied, clears,   \* history: orders, events committed
    window_bid, window_ask, dirty, last_snapshot, \* history: states seen by a snapshot call
    snapshot_call,                   \* history: the instants of a snapshot call in progress
    budget                           \* the read operations the callers still have to make

bookVars == <<bids, asks>>
cacheVars == <<aggregated_bid_depth, aggregated_ask_depth>>
lockVars == <<book_lock, bid_depth_lock, ask_depth_lock>>
snapVars == <<window_bid, window_ask, dirty, last_snapshot, snapshot_call>>
vars == <<bids, asks, aggregated_bid_depth, aggregated_ask_depth, book_lock,
          bid_depth_lock, ask_depth_lock, overflow_checks, pc, event, query,
          bid_depth_snapshot, ret, inserted, event_id, applied, clears,
          window_bid, window_ask, dirty, last_snapshot, snapshot_call, budget>>

\* ------------------------------------------------------------ OrderBook
\* Mutant: the level is the floor of the price, rounding toward minus infinity.
aggregate_price_to_level_floor(price) == (price \div TicksPerUnit) * TicksPerUnit

\* Mutant: the level is given as a number of units instead of a price in ticks.
aggregate_price_to_level_units(price) ==
    IF price >= 0
    THEN price \div TicksPerUnit
    ELSE 0 - ((0 - price) \div TicksPerUnit)

\* Decimal::trunc: the integer part, rounding toward zero.
aggregate_price_to_level(price) ==
    IF price >= 0
    THEN (price \div TicksPerUnit) * TicksPerUnit
    ELSE 0 - (((0 - price) \div TicksPerUnit) * TicksPerUnit)

\* Mutant: the bucket is keyed by the aggregated level instead of the exact price.
PushOrder_by_level(price_level_map, order) ==
    LET key == aggregate_price_to_level(order.price)
    IN  IF key \in DOMAIN price_level_map
        THEN [price_level_map EXCEPT ![key] = Append(@, order)]
        ELSE MapInsert(price_level_map, key, <<order>>)

\* Mutant: the order is put at the front of its bucket.
PushOrder_front(price_level_map, order) ==
    IF order.price \in DOMAIN price_level_map
    THEN [price_level_map EXCEPT ![order.price] = <<order>> \o @]
    ELSE MapInsert(price_level_map, order.price, <<order>>)

\* .entry(order_price).or_insert_with(Vec::new).push(order)
PushOrder(price_level_map, order) ==
    IF order.price \in DOMAIN price_level_map
    THEN [price_level_map EXCEPT ![order.price] = Append(@, order)]
    ELSE MapInsert(price_level_map, order.price, <<order>>)

\* Mutant: the event carries the aggregated level instead of the exact price.
insert_order_level_event(b, a, order) ==
    [bids |-> IF order.side = "Bid" THEN PushOrder(b, order) ELSE b,
     asks |-> IF order.side = "Ask" THEN PushOrder(a, order) ELSE a,
     event |-> [price |-> aggregate_price_to_level(order.price),
                quantity_delta |-> order.quantity,
                side |-> order.side]]

\* Mutant: the order is pushed into the maps of both sides.
insert_order_both_sides(b, a, order) ==
    [bids |-> PushOrder(b, order),
     asks |-> PushOrder(a, order),
     event |-> [price |-> order.price,
                quantity_delta |-> order.quantity,
                side |-> order.side]]

\* Mutant: an order that crosses the book is matched against the best price level of the
\* opposite side, which is removed.
insert_order_matching(b, a, order) ==
    LET Without(m, k) == [x \in (DOMAIN m) \ {k} |-> m[x]]
        crossesAsk == order.side = "Bid" /\ DOMAIN a # {} /\ order.price >= MinKey(a)
        crossesBid == order.side = "Ask" /\ DOMAIN b # {} /\ order.price <= MaxKey(b)
    IN  [bids |-> IF order.side = "Bid" THEN PushOrder(b, order)
                  ELSE IF crossesBid THEN Without(b, MaxKey(b)) ELSE b,
         asks |-> IF order.side = "Ask" THEN PushOrder(a, order)
                  ELSE IF crossesAsk THEN Without(a, MinKey(a)) ELSE a,
         event |-> [price |-> order.price,
                    quantity_delta |-> order.quantity,
                    side |-> order.side]]

\* insert_order: the new bid map, the new ask map and the returned event.
insert_order(b, a, order) ==
    [bids |-> IF order.side = "Bid" THEN PushOrder(b, order) ELSE b,
     asks |-> IF order.side = "Ask" THEN PushOrder(a, order) ELSE a,
     event |-> [price |-> order.price,
                quantity_delta |-> order.quantity,
                side |-> order.side]]

\* Mutant: the best bid is read with next() instead of next_back().
compute_spread_first_bid(b, a) == <<FirstKey(b), FirstKey(a)>>

\* Mutant: the best ask is read with next_back() instead of next().
compute_spread_last_ask(b, a) == <<LastKey(b), LastKey(a)>>

compute_spread(b, a) == <<LastKey(b), FirstKey(a)>>

\* Mutant: the orders are counted instead of the price levels.
bid_levels_count_orders(b) ==
    LET RECURSIVE Count(_)
        Count(keys) == IF keys = {} THEN 0
                       ELSE LET k == CHOOSE x \in keys : TRUE
                            IN  Len(b[k]) + Count(keys \ {k})
    IN  Count(DOMAIN b)

bid_levels_count(b) == Cardinality(DOMAIN b)

ask_levels_count(a) == Cardinality(DOMAIN a)

orders_at_price_level(b, a, price, side) ==
    LET price_level_map == IF side = "Bid" THEN b ELSE a
    IN  IF price \in DOMAIN price_level_map THEN Len(price_level_map[price]) ELSE 0

\* ------------------------------------------------------------ MarketDepthCache
\* .entry(level).or_insert(0)
or_insert(depth, level, default) ==
    IF level \in DOMAIN depth THEN depth ELSE MapInsert(depth, level, default)

\* u64 += u64: with overflow checks compiled in (the default of a debug build and of
\* cargo test) an overflowing addition panics; without them (the default of a release
\* build) it wraps.
AddAssign(total, delta, checks) ==
    [panic |-> checks /\ total + delta > U64Max,
     value |-> IF checks /\ total + delta > U64Max
               THEN total
               ELSE (total + delta) % (U64Max + 1)]

\* Mutant: an event with quantity_delta 0 is dropped without creating its entry.
process_order_event_skip_zero(depth, ev, checks) ==
    LET aggregated_price_level == aggregate_price_to_level(ev.price)
        entry == or_insert(depth, aggregated_price_level, 0)
        sum == AddAssign(entry[aggregated_price_level], ev.quantity_delta, checks)
    IN  IF ev.quantity_delta = 0
        THEN [panic |-> FALSE, depth |-> depth]
        ELSE [panic |-> sum.panic,
              depth |-> [entry EXCEPT ![aggregated_price_level] = sum.value]]

\* Mutant: the delta is added to every level of the side.
process_order_event_all_levels(depth, ev, checks) ==
    LET aggregated_price_level == aggregate_price_to_level(ev.price)
        entry == or_insert(depth, aggregated_price_level, 0)
        sum == AddAssign(entry[aggregated_price_level], ev.quantity_delta, checks)
    IN  [panic |-> sum.panic,
         depth |-> [l \in DOMAIN entry |->
                       IF l = aggregated_price_level THEN sum.value
                       ELSE AddAssign(entry[l], ev.quantity_delta, FALSE).value]]

\* The critical section of process_order_event on the depth map of the event's side.
process_order_event(depth, ev, checks) ==
    LET aggregated_price_level == aggregate_price_to_level(ev.price)
        entry == or_insert(depth, aggregated_price_level, 0)
        sum == AddAssign(entry[aggregated_price_level], ev.quantity_delta, checks)
    IN  [panic |-> sum.panic,
         depth |-> [entry EXCEPT ![aggregated_price_level] = sum.value]]

\* Mutant: the bid map is taken out of the cache instead of cloned.
clone_bid_depth_take(bid_depth, ask_depth) == [copy |-> bid_depth, left |-> EmptyMap]

\* Mutant: the ask side of the snapshot is cloned from the bid map.
clone_ask_depth_of_bid(bid_depth, ask_depth) == [copy |-> bid_depth, left |-> ask_depth]

\* self.aggregated_bid_depth.read().clone(), self.aggregated_ask_depth.read().clone():
\* the copy that is returned and the map that is left behind.
clone_bid_depth(bid_depth, ask_depth) == [copy |-> bid_depth, left |-> bid_depth]

clone_ask_depth(bid_depth, ask_depth) == [copy |-> ask_depth, left |-> ask_depth]

\* Mutant: a level missing on the side asked for is looked up on the opposite side.
get_quantity_at_level_any_side(bid_depth, ask_depth, aggregated_level, side) ==
    LET depth == IF side = "Bid" THEN bid_depth ELSE ask_depth
        other == IF side = "Bid" THEN ask_depth ELSE bid_depth
    IN  IF aggregated_level \in DOMAIN depth THEN depth[aggregated_level]
        ELSE IF aggregated_level \in DOMAIN other THEN other[aggregated_level] ELSE 0

get_quantity_at_level(bid_depth, ask_depth, aggregated_level, side) ==
    LET depth == IF side = "Bid" THEN bid_depth ELSE ask_depth
    IN  IF aggregated_level \in DOMAIN depth THEN depth[aggregated_level] ELSE 0

cache_levels_count(bid_depth, ask_depth, side) ==
    Cardinality(DOMAIN (IF side = "Bid" THEN bid_depth ELSE ask_depth))

\* Mutant: the totals are set to zero and the levels are kept.
clear_map_keep_keys(depth) == [k \in DOMAIN depth |-> 0]

\* BTreeMap::clear
clear_map(depth) == EmptyMap

\* ------------------------------------------------------------ threads
NoRet == [op |-> "none", val |-> <<>>]
\* Mutant: one lock guards both sides of the cache.
DepthLock_single(side) == bid_depth_lock

DepthLock(side) == IF side = "Bid" THEN bid_depth_lock ELSE ask_depth_lock
ReadingBid(t) == pc[t] = "snap_bid_r"
ReadingAsk(t) == pc[t] \in {"snap_bid_r", "snap_ask", "snap_ask_r"}
HoldsSnapshot(t) == pc[t] = "ret"
InSnapshot(t) == pc[t] \in {"snap_bid_r", "snap_ask", "snap_ask_r"}
\* No snapshot call in progress: no instant recorded.
NoCall == [instants |-> {}, apply |-> FALSE]
\* A budget that is never used up: the callers may read for ever.
Unbounded == 0 - 1
\* A read operation is started if the callers have one left, and uses it up.
CanStartRead == budget # 0
StartRead == IF budget > 0 THEN budget - 1 ELSE budget

\* History kept when a cache map changes under a write lock: a snapshot call that has
\* not yet copied a side has now seen the new state of that side.
NoteCommit(newBid, newAsk, byApply) ==
    /\ snapshot_call' =
           [t \in Threads |->
               IF InSnapshot(t)
               THEN [instants |-> snapshot_call[t].instants \cup {<<newBid, newAsk>>},
                     apply |-> snapshot_call[t].apply \/ byApply]
               ELSE snapshot_call[t]]
    /\ window_bid' = [t \in Threads |->
                        IF ReadingBid(t) THEN window_bid[t] \cup {newBid} ELSE window_bid[t]]
    /\ window_ask' = [t \in Threads |->
                        IF ReadingAsk(t) THEN window_ask[t] \cup {newAsk} ELSE window_ask[t]]
    /\ dirty' = [t \in Threads |-> dirty[t] \/ ReadingAsk(t) \/ HoldsSnapshot(t)]
    /\ last_snapshot' = None

Init ==
    /\ bids = EmptyMap
    /\ asks = EmptyMap
    /\ aggregated_bid_depth = EmptyMap
    /\ aggregated_ask_depth = EmptyMap
    /\ book_lock = FreeLock
    /\ bid_depth_lock = FreeLock
    /\ ask_depth_lock = FreeLock
    /\ overflow_checks \in BOOLEAN
    /\ pc = [t \in Threads |-> "idle"]
    /\ event = [t \in Threads |-> None]
    /\ query = [t \in Threads |-> "none"]
    /\ bid_depth_snapshot = [t \in Threads |-> EmptyMap]
    /\ ret = [t \in Threads |-> NoRet]
    /\ inserted = <<>>
    /\ event_id = [t \in Threads |-> 0]
    /\ applied = {}
    /\ clears = 0
    /\ window_bid = [t \in Threads |-> {}]
    /\ window_ask = [t \in Threads |-> {}]
    /\ dirty = [t \in Threads |-> FALSE]
    /\ last_snapshot = None
    /\ snapshot_call = [t \in Threads |-> NoCall]
    /\ budget = Unbounded

\* let mut book = book_clone.write();
BookWrite(t, max_orders) ==
    /\ pc[t] = "idle"
    /\ Len(inserted) < max_orders
    /\ CanWrite(book_lock)
    /\ book_lock' = LockWrite(book_lock, t)
    /\ pc' = [pc EXCEPT ![t] = "book_w"]
    /\ UNCHANGED <<budget, bookVars, cacheVars, bid_depth_lock, ask_depth_lock, overflow_checks,
                   event, query, bid_depth_snapshot, ret, inserted, event_id, applied,
                   clears, snapVars>>

\* Mutant: the write guard of the book is kept while the event is applied.
InsertOrder_keeps_lock(t, order) ==
    /\ pc[t] = "book_w"
    /\ LET r == insert_order(bids, asks, order)
       IN  /\ bids' = r.bids
           /\ asks' = r.asks
           /\ event' = [event EXCEPT ![t] = Some(r.event)]
    /\ inserted' = Append(inserted, order)
    /\ event_id' = [event_id EXCEPT ![t] = Len(inserted) + 1]
    /\ pc' = [pc EXCEPT ![t] = "have_event"]
    /\ UNCHANGED <<budget, cacheVars, lockVars, overflow_checks, query,
                   bid_depth_snapshot, ret, applied, clears, snapVars>>

\* book.insert_order(order), and the write guard dropped at the end of the block.
InsertOrder(t, order) ==
    /\ pc[t] = "book_w"
    /\ LET r == insert_order(bids, asks, order)
       IN  /\ bids' = r.bids
           /\ asks' = r.asks
           /\ event' = [event EXCEPT ![t] = Some(r.event)]
    /\ inserted' = Append(inserted, order)
    /\ event_id' = [event_id EXCEPT ![t] = Len(inserted) + 1]
    /\ book_lock' = Unlock(book_lock, t)
    /\ pc' = [pc EXCEPT ![t] = "have_event"]
    /\ UNCHANGED <<budget, cacheVars, bid_depth_lock, ask_depth_lock, overflow_checks, query,
                   bid_depth_snapshot, ret, applied, clears, snapVars>>

\* Mutant: an order of the default price is inserted before the failure is noticed.
OrderNewPanic_inserts(t, price, quantity, side) ==
    /\ pc[t] = "book_w"
    /\ Order_new(price, quantity, side).panic
    /\ LET order == Order_new(price, quantity, side).order
           r == insert_order(bids, asks, order)
       IN  /\ bids' = r.bids
           /\ asks' = r.asks
           /\ inserted' = Append(inserted, order)
    /\ book_lock' = Unlock(book_lock, t)
    /\ pc' = [pc EXCEPT ![t] = "new_panicked"]
    /\ UNCHANGED <<budget, cacheVars, bid_depth_lock, ask_depth_lock, overflow_checks, event, query,
                   bid_depth_snapshot, ret, event_id, applied, clears, snapVars>>

\* let order = Order::new(price, quantity, side) with a price that has no Decimal: the
\* unwrap panics before insert_order is called, and the write guard of the book is
\* dropped while unwinding (parking_lot does not poison).
OrderNewPanic(t, price, quantity, side) ==
    /\ pc[t] = "book_w"
    /\ Order_new(price, quantity, side).panic
    /\ book_lock' = Unlock(book_lock, t)
    /\ pc' = [pc EXCEPT ![t] = "new_panicked"]
    /\ UNCHANGED <<budget, bookVars, cacheVars, bid_depth_lock, ask_depth_lock, overflow_checks,
                   event, query, bid_depth_snapshot, ret, inserted, event_id, applied,
                   clears, snapVars>>

\* A caller that does not forward the returned event, as in the documentation
\* example of compute_spread.
DropEvent(t) ==
    /\ pc[t] = "have_event"
    /\ event' = [event EXCEPT ![t] = None]
    /\ event_id' = [event_id EXCEPT ![t] = 0]
    /\ pc' = [pc EXCEPT ![t] = "idle"]
    /\ UNCHANGED <<budget, bookVars, cacheVars, lockVars, overflow_checks, query,
                   bid_depth_snapshot, ret, inserted, applied, clears, snapVars>>

\* book_clone.read()
BookRead(t) ==
    /\ pc[t] = "idle"
    /\ CanStartRead
    /\ budget' = StartRead
    /\ CanRead(book_lock)
    /\ book_lock' = LockRead(book_lock, t)
    /\ pc' = [pc EXCEPT ![t] = "book_r"]
    /\ UNCHANGED <<bookVars, cacheVars, bid_depth_lock, ask_depth_lock, overflow_checks,
                   event, query, bid_depth_snapshot, ret, inserted, event_id, applied,
                   clears, snapVars>>

\* A query under the read guard, which is dropped when the statement ends.  What the
\* query returns is the operator of its name on the book as it is while the guard is held.
BookQuery(t) ==
    /\ pc[t] = "book_r"
    /\ book_lock' = Unlock(book_lock, t)
    /\ pc' = [pc EXCEPT ![t] = "idle"]
    /\ UNCHANGED <<budget, bookVars, cacheVars, bid_depth_lock, ask_depth_lock, overflow_checks,
                   event, query, bid_depth_snapshot, ret, inserted, event_id, applied,
                   clears, snapVars>>

\* process_order_event: the level is computed, then the write lock of the event's side
\* is taken.
ApplyLock(t) ==
    /\ pc[t] = "have_event"
    /\ LET side == Unwrap(event[t]).side
       IN  /\ CanWrite(DepthLock(side))
           /\ bid_depth_lock' =
                  IF side = "Bid" THEN LockWrite(bid_depth_lock, t) ELSE bid_depth_lock
           /\ ask_depth_lock' =
                  IF side = "Ask" THEN LockWrite(ask_depth_lock, t) ELSE ask_depth_lock
    /\ pc' = [pc EXCEPT ![t] = "apply_w"]
    /\ UNCHANGED <<budget, bookVars, cacheVars, book_lock, overflow_checks, event, query,
                   bid_depth_snapshot, ret, inserted, event_id, applied, clears, snapVars>>

ApplyResult(t) ==
    LET ev == Unwrap(event[t])
    IN  process_order_event(IF ev.side = "Bid" THEN aggregated_bid_depth
                            ELSE aggregated_ask_depth, ev, overflow_checks)

\* The update under the write lock; the guard is dropped when the function returns.
ApplyCommit(t) ==
    /\ pc[t] = "apply_w"
    /\ ~ApplyResult(t).panic
    /\ LET ev == Unwrap(event[t])
           newBid == IF ev.side = "Bid" THEN ApplyResult(t).depth ELSE aggregated_bid_depth
           newAsk == IF ev.side = "Ask" THEN ApplyResult(t).depth ELSE aggregated_ask_depth
       IN  /\ aggregated_bid_depth' = newBid
           /\ aggregated_ask_depth' = newAsk
           /\ NoteCommit(newBid, newAsk, TRUE)
    /\ applied' = applied \cup {event_id[t]}
    /\ bid_depth_lock' = Unlock(bid_depth_lock, t)
    /\ ask_depth_lock' = Unlock(ask_depth_lock, t)
    /\ event' = [event EXCEPT ![t] = None]
    /\ event_id' = [event_id EXCEPT ![t] = 0]
    /\ pc' = [pc EXCEPT ![t] = "idle"]
    /\ UNCHANGED <<budget, bookVars, book_lock, overflow_checks, query, bid_depth_snapshot, ret,
                   inserted, clears>>

\* The addition overflows with overflow checks on: the thread panics, the guard is
\* dropped while unwinding (parking_lot does not poison) and the total stays as it was.
ApplyPanic(t) ==
    /\ pc[t] = "apply_w"
    /\ ApplyResult(t).panic
    /\ LET ev == Unwrap(event[t])
       IN  /\ aggregated_bid_depth' =
                  IF ev.side = "Bid" THEN ApplyResult(t).depth ELSE aggregated_bid_depth
           /\ aggregated_ask_depth' =
                  IF ev.side = "Ask" THEN ApplyResult(t).depth ELSE aggregated_ask_depth
    /\ bid_depth_lock' = Unlock(bid_depth_lock, t)
    /\ ask_depth_lock' = Unlock(ask_depth_lock, t)
    /\ event' = [event EXCEPT ![t] = None]
    /\ event_id' = [event_id EXCEPT ![t] = 0]
    /\ pc' = [pc EXCEPT ![t] = "panicked"]
    /\ UNCHANGED <<budget, bookVars, book_lock, overflow_checks, query, bid_depth_snapshot, ret,
                   inserted, applied, clears, snapVars>>

\* get_quantity_at_level, bid_levels_count, ask_levels_count: the side's read lock.
CacheRead(t, side) ==
    /\ pc[t] = "idle"
    /\ CanStartRead
    /\ budget' = StartRead
    /\ CanRead(DepthLock(side))
    /\ bid_depth_lock' = IF side = "Bid" THEN LockRead(bid_depth_lock, t) ELSE bid_depth_lock
    /\ ask_depth_lock' = IF side = "Ask" THEN LockRead(ask_depth_lock, t) ELSE ask_depth_lock
    /\ query' = [query EXCEPT ![t] = side]
    /\ pc' = [pc EXCEPT ![t] = "cache_r"]
    /\ UNCHANGED <<bookVars, cacheVars, book_lock, overflow_checks, event,
                   bid_depth_snapshot, ret, inserted, event_id, applied, clears, snapVars>>

\* The lookup under the read guard; what it returns is get_quantity_at_level or
\* cache_levels_count on the maps as they are while the guard is held.
CacheQuery(t) ==
    /\ pc[t] = "cache_r"
    /\ bid_depth_lock' = Unlock(bid_depth_lock, t)
    /\ ask_depth_lock' = Unlock(ask_depth_lock, t)
    /\ query' = [query EXCEPT ![t] = "none"]
    /\ pc' = [pc EXCEPT ![t] = "idle"]
    /\ UNCHANGED <<budget, bookVars, cacheVars, book_lock, overflow_checks, event,
                   bid_depth_snapshot, ret, inserted, event_id, applied, clears, snapVars>>

\* get_aggregated_market_depth: the call starts by taking the bid read lock.
SnapLockBid(t) ==
    /\ pc[t] = "idle"
    /\ CanStartRead
    /\ budget' = StartRead
    /\ CanRead(bid_depth_lock)
    /\ bid_depth_lock' = LockRead(bid_depth_lock, t)
    /\ snapshot_call' = [snapshot_call EXCEPT ![t] =
                             [instants |-> {<<aggregated_bid_depth, aggregated_ask_depth>>},
                              apply |-> FALSE]]
    /\ window_bid' = [window_bid EXCEPT ![t] = {aggregated_bid_depth}]
    /\ window_ask' = [window_ask EXCEPT ![t] = {aggregated_ask_depth}]
    /\ pc' = [pc EXCEPT ![t] = "snap_bid_r"]
    /\ UNCHANGED <<bookVars, cacheVars, book_lock, ask_depth_lock, overflow_checks, event,
                   query, bid_depth_snapshot, ret, inserted, event_id, applied,
                   clears, dirty, last_snapshot>>

\* let bid_depth_snapshot = self.aggregated_bid_depth.read().clone();
SnapCloneBid(t) ==
    /\ pc[t] = "snap_bid_r"
    /\ LET c == clone_bid_depth(aggregated_bid_depth, aggregated_ask_depth)
       IN  /\ bid_depth_snapshot' = [bid_depth_snapshot EXCEPT ![t] = c.copy]
           /\ aggregated_bid_depth' = c.left
    /\ bid_depth_lock' = Unlock(bid_depth_lock, t)
    /\ window_bid' = [window_bid EXCEPT ![t] = {}]
    /\ pc' = [pc EXCEPT ![t] = "snap_ask"]
    /\ UNCHANGED <<budget, bookVars, aggregated_ask_depth, book_lock, ask_depth_lock,
                   overflow_checks, event, query, ret, inserted, event_id, applied,
                   clears, window_ask, dirty, last_snapshot, snapshot_call>>

SnapLockAsk(t) ==
    /\ pc[t] = "snap_ask"
    /\ CanRead(ask_depth_lock)
    /\ ask_depth_lock' = LockRead(ask_depth_lock, t)
    /\ pc' = [pc EXCEPT ![t] = "snap_ask_r"]
    /\ UNCHANGED <<budget, bookVars, cacheVars, book_lock, bid_depth_lock, overflow_checks, event,
                   query, bid_depth_snapshot, ret, inserted, event_id, applied,
                   clears, snapVars>>

\* let ask_depth_snapshot = self.aggregated_ask_depth.read().clone(); and the return
\* of (bid_depth_snapshot, ask_depth_snapshot).
SnapCloneAsk(t) ==
    /\ pc[t] = "snap_ask_r"
    /\ LET c == clone_ask_depth(aggregated_bid_depth, aggregated_ask_depth)
       IN  /\ ret' = [ret EXCEPT ![t] =
                         [op |-> "snapshot", val |-> <<bid_depth_snapshot[t], c.copy>>]]
           /\ aggregated_ask_depth' = c.left
    /\ bid_depth_snapshot' = [bid_depth_snapshot EXCEPT ![t] = EmptyMap]
    /\ ask_depth_lock' = Unlock(ask_depth_lock, t)
    /\ window_ask' = [window_ask EXCEPT ![t] = {}]
    /\ snapshot_call' = [snapshot_call EXCEPT ![t] = NoCall]
    /\ pc' = [pc EXCEPT ![t] = "ret"]
    /\ UNCHANGED <<budget, bookVars, aggregated_bid_depth, book_lock, bid_depth_lock,
                   overflow_checks, event, query, inserted, event_id, applied,
                   clears, window_bid, dirty, last_snapshot>>

\* clear: self.aggregated_bid_depth.write()
ClearLockBid(t) ==
    /\ pc[t] = "idle"
    /\ clears < MaxClears
    /\ CanWrite(bid_depth_lock)
    /\ bid_depth_lock' = LockWrite(bid_depth_lock, t)
    /\ clears' = clears + 1
    /\ pc' = [pc EXCEPT ![t] = "clear_bid_w"]
    /\ UNCHANGED <<budget, bookVars, cacheVars, book_lock, ask_depth_lock, overflow_checks, event,
                   query, bid_depth_snapshot, ret, inserted, event_id, applied, snapVars>>

\* .clear() on the bid map; the guard is dropped at the end of the statement.
ClearBid(t) ==
    /\ pc[t] = "clear_bid_w"
    /\ aggregated_bid_depth' = clear_map(aggregated_bid_depth)
    /\ NoteCommit(clear_map(aggregated_bid_depth), aggregated_ask_depth, FALSE)
    /\ applied' = {i \in applied : inserted[i].side # "Bid"}
    /\ bid_depth_lock' = Unlock(bid_depth_lock, t)
    /\ pc' = [pc EXCEPT ![t] = "clear_ask"]
    /\ UNCHANGED <<budget, bookVars, aggregated_ask_depth, book_lock, ask_depth_lock,
                   overflow_checks, event, query, bid_depth_snapshot, ret, inserted,
                   event_id, clears>>

\* self.aggregated_ask_depth.write()
ClearLockAsk(t) ==
    /\ pc[t] = "clear_ask"
    /\ CanWrite(ask_depth_lock)
    /\ ask_depth_lock' = LockWrite(ask_depth_lock, t)
    /\ pc' = [pc EXCEPT ![t] = "clear_ask_w"]
    /\ UNCHANGED <<budget, bookVars, cacheVars, book_lock, bid_depth_lock, overflow_checks, event,
                   query, bid_depth_snapshot, ret, inserted, event_id, applied,
                   clears, snapVars>>

\* Mutant: a returned snapshot shares the ask map with the cache, so that clearing the
\* cache empties it.
ClearAsk_shared(t) ==
    /\ pc[t] = "clear_ask_w"
    /\ aggregated_ask_depth' = clear_map(aggregated_ask_depth)
    /\ NoteCommit(aggregated_bid_depth, clear_map(aggregated_ask_depth), FALSE)
    /\ applied' = {i \in applied : inserted[i].side # "Ask"}
    /\ ask_depth_lock' = Unlock(ask_depth_lock, t)
    /\ pc' = [pc EXCEPT ![t] = "idle"]
    /\ ret' = [u \in Threads |->
                  IF HoldsSnapshot(u)
                  THEN [ret[u] EXCEPT !.val = <<ret[u].val[1], clear_map(ret[u].val[2])>>]
                  ELSE ret[u]]
    /\ UNCHANGED <<budget, bookVars, aggregated_bid_depth, book_lock, bid_depth_lock,
                   overflow_checks, event, query, bid_depth_snapshot, inserted,
                   event_id, clears>>

ClearAsk(t) ==
    /\ pc[t] = "clear_ask_w"
    /\ aggregated_ask_depth' = clear_map(aggregated_ask_depth)
    /\ NoteCommit(aggregated_bid_depth, clear_map(aggregated_ask_depth), FALSE)
    /\ applied' = {i \in applied : inserted[i].side # "Ask"}
    /\ ask_depth_lock' = Unlock(ask_depth_lock, t)
    /\ pc' = [pc EXCEPT ![t] = "idle"]
    /\ UNCHANGED <<budget, bookVars, aggregated_bid_depth, book_lock, bid_depth_lock,
                   overflow_checks, event, query, bid_depth_snapshot, ret, inserted,
                   event_id, clears>>

\* The caller takes the returned value and goes on.
Return(t) ==
    /\ pc[t] = "ret"
    /\ last_snapshot' = IF dirty[t] THEN last_snapshot ELSE Some(ret[t].val)
    /\ ret' = [ret EXCEPT ![t] = NoRet]
    /\ dirty' = [dirty EXCEPT ![t] = FALSE]
    /\ pc' = [pc EXCEPT ![t] = "idle"]
    /\ UNCHANGED <<budget, bookVars, cacheVars, lockVars, overflow_checks, event, query,
                   bid_depth_snapshot, inserted, event_id, applied, clears, window_bid,
                   window_ask, snapshot_call>>

\* Every operation, by callers that follow the protocol of the crate documentation.
Next ==
    \/ \E t \in Threads : BookWrite(t, MaxOrders)
    \/ \E t \in Threads, order \in SmallOrders : InsertOrder(t, order)
    \/ \E t \in Threads : ApplyLock(t)
    \/ \E t \in Threads : ApplyCommit(t)
    \/ \E t \in Threads : ApplyPanic(t)
    \/ \E t \in Threads : BookRead(t)
    \/ \E t \in Threads : BookQuery(t)
    \/ \E t \in Threads, side \in Side : CacheRead(t, side)
    \/ \E t \in Threads : CacheQuery(t)
    \/ \E t \in Threads : SnapLockBid(t)
    \/ \E t \in Threads : SnapCloneBid(t)
    \/ \E t \in Threads : SnapLockAsk(t)
    \/ \E t \in Threads : SnapCloneAsk(t)
    \/ \E t \in Threads : ClearLockBid(t)
    \/ \E t \in Threads : ClearBid(t)
    \/ \E t \in Threads : ClearLockAsk(t)
    \/ \E t \in Threads : ClearAsk(t)
    \/ \E t \in Threads : Return(t)

Spec == Init /\ [][Next]_vars

\* The book alone, with every order of the type: callers insert and query, and do not
\* forward the events.
NextBook ==
    \/ \E t \in Threads : BookWrite(t, MaxBookOrders)
    \/ \E t \in Threads, order \in Order : InsertOrder(t, order)
    \/ \E t \in Threads, price \in F64, quantity \in Quantities, side \in Side :
           OrderNewPanic(t, price, quantity, side)
    \/ \E t \in Threads : DropEvent(t)
    \/ \E t \in Threads : BookRead(t)
    \/ \E t \in Threads : BookQuery(t)

SpecBook == Init /\ [][NextBook]_vars

\* The book feeding the cache, with every order of the type: insert, apply, the cache's
\* queries and clear.
NextCache ==
    \/ \E t \in Threads : BookWrite(t, MaxOrders)
    \/ \E t \in Threads, order \in Order : InsertOrder(t, order)
    \/ \E t \in Threads, price \in F64, quantity \in Quantities, side \in Side :
           OrderNewPanic(t, price, quantity, side)
    \/ \E t \in Threads : ApplyLock(t)
    \/ \E t \in Threads : ApplyCommit(t)
    \/ \E t \in Threads : ApplyPanic(t)
    \/ \E t \in Threads, side \in Side : CacheRead(t, side)
    \/ \E t \in Threads : CacheQuery(t)
    \/ \E t \in Threads : ClearLockBid(t)
    \/ \E t \in Threads : ClearBid(t)
    \/ \E t \in Threads : ClearLockAsk(t)
    \/ \E t \in Threads : ClearAsk(t)

SpecCache == Init /\ [][NextCache]_vars

\* The callers of the concurrent test: a finite number of inserts, of reads and of
\* clears, every lock granted to a thread that can take it.
LiveOrders == [price : {MaxTick}, quantity : {U64Max}, side : Side]

InitLive ==
    /\ bids = EmptyMap
    /\ asks = EmptyMap
    /\ aggregated_bid_depth = EmptyMap
    /\ aggregated_ask_depth = EmptyMap
    /\ book_lock = FreeLock
    /\ bid_depth_lock = FreeLock
    /\ ask_depth_lock = FreeLock
    /\ overflow_checks \in BOOLEAN
    /\ pc = [t \in Threads |-> "idle"]
    /\ event = [t \in Threads |-> None]
    /\ query = [t \in Threads |-> "none"]
    /\ bid_depth_snapshot = [t \in Threads |-> EmptyMap]
    /\ ret = [t \in Threads |-> NoRet]
    /\ inserted = <<>>
    /\ event_id = [t \in Threads |-> 0]
    /\ applied = {}
    /\ clears = 0
    /\ window_bid = [t \in Threads |-> {}]
    /\ window_ask = [t \in Threads |-> {}]
    /\ dirty = [t \in Threads |-> FALSE]
    /\ last_snapshot = None
    /\ snapshot_call = [t \in Threads |-> NoCall]
    /\ budget = MaxReads

NextLive ==
    \/ \E t \in Threads : BookWrite(t, MaxOrders)
    \/ \E t \in Threads, order \in LiveOrders : InsertOrder(t, order)
    \/ \E t \in Threads, price \in F64, quantity \in Quantities, side \in Side :
           OrderNewPanic(t, price, quantity, side)
    \/ \E t \in Threads : ApplyLock(t)
    \/ \E t \in Threads : ApplyCommit(t)
    \/ \E t \in Threads : ApplyPanic(t)
    \/ \E t \in Threads : BookRead(t)
    \/ \E t \in Threads : BookQuery(t)
    \/ \E t \in Threads, side \in Side : CacheRead(t, side)
    \/ \E t \in Threads : CacheQuery(t)
    \/ \E t \in Threads : SnapLockBid(t)
    \/ \E t \in Threads : SnapCloneBid(t)
    \/ \E t \in Threads : SnapLockAsk(t)
    \/ \E t \in Threads : SnapCloneAsk(t)
    \/ \E t \in Threads : ClearLockBid(t)
    \/ \E t \in Threads : ClearBid(t)
    \/ \E t \in Threads : ClearLockAsk(t)
    \/ \E t \in Threads : ClearAsk(t)
    \/ \E t \in Threads : Return(t)

SpecLive == InitLive /\ [][NextLive]_vars /\ WF_vars(NextLive)

\* ------------------------------------------------------------ history and sums
Map(side) == IF side = "Bid" THEN bids ELSE asks
Depth(side) == IF side = "Bid" THEN aggregated_bid_depth ELSE aggregated_ask_depth
Bucket(side, price) == IF price \in DOMAIN Map(side) THEN Map(side)[price] ELSE <<>>
Levels == {aggregate_price_to_level(p) : p \in Prices}
EventOf(order) ==
    [price |-> order.price, quantity_delta |-> order.quantity, side |-> order.side]

SetMax(S) == CHOOSE x \in S : \A y \in S : y <= x
SetMin(S) == CHOOSE x \in S : \A y \in S : x <= y

\* The orders inserted so far, by their place in the order of insertion.
InsertedOn(side) == {i \in 1..Len(inserted) : inserted[i].side = side}
InsertedAt(side, price) == {i \in InsertedOn(side) : inserted[i].price = price}
InsertedPrices(side) == {inserted[i].price : i \in InsertedOn(side)}
InLevel(side, level) ==
    {i \in InsertedOn(side) : aggregate_price_to_level(inserted[i].price) = level}

RECURSIVE SumQuantity(_)
SumQuantity(S) ==
    IF S = {} THEN 0
    ELSE LET i == CHOOSE x \in S : TRUE
         IN  inserted[i].quantity + SumQuantity(S \ {i})

RECURSIVE SumValues(_, _)
SumValues(m, keys) ==
    IF keys = {} THEN 0
    ELSE LET k == CHOOSE x \in keys : TRUE
         IN  m[k] + SumValues(m, keys \ {k})

RECURSIVE SeqQuantity(_)
SeqQuantity(orders) ==
    IF orders = <<>> THEN 0 ELSE Head(orders).quantity + SeqQuantity(Tail(orders))

RECURSIVE RestingIn(_, _)
RestingIn(m, keys) ==
    IF keys = {} THEN 0
    ELSE LET k == CHOOSE x \in keys : TRUE
         IN  SeqQuantity(m[k]) + RestingIn(m, keys \ {k})

\* The quantity resting in the book on a side at the exact prices of one level.
RestingAtLevel(side, level) ==
    RestingIn(Map(side),
              {p \in DOMAIN Map(side) : aggregate_price_to_level(p) = level})

TotalCached ==
    SumValues(aggregated_bid_depth, DOMAIN aggregated_bid_depth)
    + SumValues(aggregated_ask_depth, DOMAIN aggregated_ask_depth)

Pending == {event_id[t] : t \in Threads} \ {0}
Delivered == (1..Len(inserted)) \ Pending
AllFinished == \A t \in Threads : pc[t] \in {"idle", "panicked", "new_panicked"}

\* The events of a side among the orders S, applied to an empty map in the order of
\* insertion.
RECURSIVE InOrder(_, _, _)
InOrder(k, S, side) ==
    IF k = 0 THEN EmptyMap
    ELSE IF k \in S /\ inserted[k].side = side
         THEN process_order_event(InOrder(k - 1, S, side), EventOf(inserted[k]),
                                  overflow_checks).depth
         ELSE InOrder(k - 1, S, side)

\* ------------------------------------------------------------ claims

\* C1. Price priority: after any sequence of inserts, compute_spread returns as best bid
\* the largest exact price inserted so far on the bid side and as best ask the smallest
\* exact price inserted so far on the ask side; a side with no insert gives None.
C1_PricePriority ==
    compute_spread(bids, asks) =
        <<IF InsertedPrices("Bid") = {} THEN None ELSE Some(SetMax(InsertedPrices("Bid"))),
          IF InsertedPrices("Ask") = {} THEN None ELSE Some(SetMin(InsertedPrices("Ask")))>>

\* A reader holds the read lock on a book with two bid prices, the later one lower, and
\* an ask.
C1_Witness ==
    /\ \E t \in Threads : pc[t] = "book_r"
    /\ \E i, j \in InsertedOn("Bid") : i < j /\ inserted[j].price < inserted[i].price
    /\ InsertedPrices("Ask") # {}

\* C2. Relationship invariant of the cache: for every side and level, the stored quantity
\* (0 when the level has no entry) equals the sum of quantity_delta over the events of
\* that side and level that process_order_event has committed since the side was last
\* cleared.
C2_StoredEqualsSum ==
    \A side \in Side, level \in Levels :
        get_quantity_at_level(aggregated_bid_depth, aggregated_ask_depth, level, side)
            = SumQuantity(InLevel(side, level) \cap applied)

\* C3. No lost updates: once every thread has finished (and clear was never called), the
\* sum of all quantities stored in the cache equals the sum of the quantities of all
\* inserted orders, and every event was committed.
C3_NoLostUpdates ==
    (AllFinished /\ clears = 0) =>
        /\ TotalCached = SumQuantity(1..Len(inserted))
        /\ applied = 1..Len(inserted)

\* C4. Aggregation correctness: once the event of every insert has been applied and clear
\* was never called, for every inserted order the cache's quantity at the order's level
\* and side equals the sum of the quantities resting in the book on that side at the exact
\* prices of that level.
C4_AggregationCorrect ==
    (applied = 1..Len(inserted) /\ clears = 0) =>
        \A i \in 1..Len(inserted) :
            LET level == aggregate_price_to_level(inserted[i].price)
                side == inserted[i].side
            IN  get_quantity_at_level(aggregated_bid_depth, aggregated_ask_depth, level, side)
                    = RestingAtLevel(side, level)

\* C5. Every insert returns exactly one event, with the exact price, the quantity and the
\* side of the inserted order; a caller holding the write lock can always insert.
C5_EventOfInsert ==
    \A t \in Threads :
        /\ pc[t] = "have_event" =>
              /\ event_id[t] \in 1..Len(inserted)
              /\ event[t] = Some(EventOf(inserted[event_id[t]]))
        /\ pc[t] = "book_w" => \A order \in Order : ENABLED InsertOrder(t, order)

\* A caller holds the event of an order whose price is not a whole number of units.
C5_Witness ==
    \E t \in Threads :
        /\ pc[t] = "have_event"
        /\ Unwrap(event[t]).price # aggregate_price_to_level(Unwrap(event[t]).price)
        /\ Unwrap(event[t]).quantity_delta = U64Max

\* C6. Exact-level occupancy: an insert at (price, side) raises orders_at_price_level there
\* by exactly 1 and leaves it unchanged at every other price and side; a price never
\* inserted on a side gives 0.
C6_Occupancy ==
    /\ [](\A side \in Side, price \in Prices :
             price \notin InsertedPrices(side) =>
                 orders_at_price_level(bids, asks, price, side) = 0)
    /\ [][inserted' # inserted =>
             LET order == inserted'[Len(inserted')]
             IN  \A side \in Side, price \in Prices :
                     orders_at_price_level(bids', asks', price, side)
                         = orders_at_price_level(bids, asks, price, side)
                           + (IF price = order.price /\ side = order.side THEN 1 ELSE 0)]_vars

\* Two orders rest at one exact price on one side, none at that price on the other side,
\* and another price of the same level holds one order.
C6_Witness ==
    \E side \in Side, price, other \in Prices :
        /\ orders_at_price_level(bids, asks, price, side) = 2
        /\ \A s \in Side \ {side} : orders_at_price_level(bids, asks, price, s) = 0
        /\ other # price
        /\ aggregate_price_to_level(other) = aggregate_price_to_level(price)
        /\ orders_at_price_level(bids, asks, other, side) = 1

\* C7. Time priority: the sequence stored at each side and exact price lists exactly the
\* orders inserted there, earliest first, and a step never changes the relative order of
\* the orders already resting: the old sequence is a prefix of the new one.
C7_TimePriority ==
    /\ [](\A side \in Side, price \in Prices :
             LET Here(order) == order.side = side /\ order.price = price
             IN  Bucket(side, price) = SelectSeq(inserted, Here))
    /\ [][\A side \in Side, price \in Prices :
             /\ Len(Bucket(side, price)) <= Len(Bucket(side, price)')
             /\ SubSeq(Bucket(side, price)', 1, Len(Bucket(side, price)))
                    = Bucket(side, price)]_vars

\* Three orders of different quantities rest at one exact price, in the order of arrival.
C7_Witness ==
    \E side \in Side, price \in Prices :
        /\ Len(Bucket(side, price)) = 3
        /\ Bucket(side, price)[1].quantity # Bucket(side, price)[2].quantity
        /\ Bucket(side, price)[2].quantity # Bucket(side, price)[3].quantity

\* C8. Commutativity of apply: with clear never called, the totals and the levels of each
\* side are those obtained by applying the delivered events to an empty cache in the order
\* of insertion, in whatever order the callers delivered them.
C8_Commutative ==
    clears = 0 =>
        \A side \in Side : Depth(side) = InOrder(Len(inserted), Delivered, side)

\* C9. Snapshot consistency per side: the bid mapping a snapshot call copies is a state the
\* cache's bid mapping had between the start of the call and the copy, likewise the ask
\* mapping, and the call returns exactly the two copies.
C9_SnapshotPerSide ==
    [][\A t \in Threads :
          /\ (pc[t] = "snap_bid_r" /\ pc'[t] = "snap_ask") =>
                 bid_depth_snapshot'[t] \in window_bid[t]
          /\ (pc[t] = "snap_ask_r" /\ pc'[t] = "ret") =>
                 /\ ret'[t].val[1] = bid_depth_snapshot[t]
                 /\ ret'[t].val[2] \in window_ask[t]]_vars

\* A snapshot returned after the cache changed during the call, and its bid copy is no
\* longer the cache's bid mapping.
C9_Witness ==
    \E t \in Threads :
        /\ HoldsSnapshot(t)
        /\ dirty[t]
        /\ ret[t].val[1] # aggregated_bid_depth
        /\ ret[t].val[2] # EmptyMap

\* C10. Idempotent, read-only snapshot: snapshot calls with no committed apply or clear
\* since the earliest of them started return equal pairs of mappings, and no step of a
\* snapshot call changes either cache mapping.
C10_SnapshotIdempotent ==
    /\ [](\A t \in Threads :
             (HoldsSnapshot(t) /\ ~dirty[t]) =>
                 /\ last_snapshot # None => ret[t].val = Unwrap(last_snapshot)
                 /\ \A u \in Threads :
                        (HoldsSnapshot(u) /\ ~dirty[u]) => ret[u].val = ret[t].val)
    /\ [][\A t \in Threads :
             (pc[t] \in {"snap_bid_r", "snap_ask_r"} /\ pc'[t] # pc[t]) =>
                 UNCHANGED cacheVars]_vars

\* A second snapshot of a cache with entries on both sides returned with no apply or
\* clear since the first one started.
C10_Witness ==
    \E t \in Threads :
        /\ HoldsSnapshot(t)
        /\ ~dirty[t]
        /\ last_snapshot # None
        /\ ret[t].val[1] # EmptyMap
        /\ ret[t].val[2] # EmptyMap

\* C11. Snapshot independence: the pair a snapshot call returned is a copy; while the
\* caller holds it, no step of any thread (an apply, a clear, another snapshot) changes it.
C11_SnapshotIndependent ==
    [][\A t \in Threads :
          (HoldsSnapshot(t) /\ pc'[t] = "ret") => ret'[t] = ret[t]]_vars

\* A caller still holds a snapshot with entries on both sides after the ask side of the
\* cache was cleared: the ask copy was taken before the clear emptied the ask map.
C11_Witness ==
    \E t \in Threads :
        /\ HoldsSnapshot(t)
        /\ ret[t].val[1] # EmptyMap
        /\ ret[t].val[2] # EmptyMap
        /\ clears > 0
        /\ aggregated_ask_depth = EmptyMap
        /\ \A u \in Threads : pc[u] \notin {"clear_bid_w", "clear_ask", "clear_ask_w"}

\* C12. An invalid price is an error value, not an abort: no thread ever panics in
\* Order::new, whatever f64 it is given.
C12_InvalidPriceIsError ==
    \A t \in Threads : pc[t] # "new_panicked"

\* C13. State unchanged on a price error: the step in which the construction of an order
\* fails changes neither map of the book nor of the cache, inserts nothing and produces
\* no event, and the caller that failed holds no event.
C13_UnchangedOnPriceError ==
    /\ [](\A t \in Threads : pc[t] = "new_panicked" => event[t] = None /\ event_id[t] = 0)
    /\ [][\A t \in Threads :
             (pc[t] = "book_w" /\ pc'[t] = "new_panicked") =>
                 UNCHANGED <<bookVars, cacheVars, event, event_id, inserted, applied>>]_vars

\* A construction failed on a book and a cache that both hold an order, and the book is
\* unlocked again.
C13_Witness ==
    \E t \in Threads :
        /\ pc[t] = "new_panicked"
        /\ Len(inserted) > 0
        /\ applied # {}
        /\ book_lock = FreeLock

\* A step of the cache seen from its totals: a process_order_event that leaves its
\* critical section returned and added quantity_delta, and no total went down outside
\* the steps of clear.
ApplyAdditiveStep ==
    /\ \A t \in Threads :
          (pc[t] = "apply_w" /\ pc'[t] # "apply_w") =>
              LET ev == Unwrap(event[t])
                  level == aggregate_price_to_level(ev.price)
              IN  /\ pc'[t] = "idle"
                  /\ get_quantity_at_level(aggregated_bid_depth', aggregated_ask_depth',
                                           level, ev.side)
                         = get_quantity_at_level(aggregated_bid_depth, aggregated_ask_depth,
                                                 level, ev.side) + ev.quantity_delta
    /\ (\A t \in Threads : pc[t] \notin {"clear_bid_w", "clear_ask_w"}) =>
           \A side \in Side, level \in Levels :
               get_quantity_at_level(aggregated_bid_depth', aggregated_ask_depth',
                                     level, side)
                   >= get_quantity_at_level(aggregated_bid_depth, aggregated_ask_depth,
                                            level, side)

\* C14. apply is total and additive: every process_order_event that holds the write lock
\* returns, and leaves at the event's side and level the previous total (0 without an
\* entry) plus quantity_delta; outside the steps of clear no stored total decreases.
C14_ApplyTotalAdditive == [][ApplyAdditiveStep]_vars

\* The integer part of a price: the whole number of units that is no farther from zero
\* than the price and less than one unit away from it.
IntegerPart(price) ==
    CHOOSE l \in {n * TicksPerUnit : n \in (0 - NegTicks)..MaxTick} :
        /\ (price >= 0 => l <= price /\ price < l + TicksPerUnit)
        /\ (price <= 0 => l >= price /\ price > l - TicksPerUnit)

\* C15. aggregate_price_to_level is total and truncates toward zero: for every price,
\* negative ones and whole ones included, it gives the integer part, a whole price is its
\* own level, and every committed event has its entry at the integer part of its price.
C15_AggregateTruncates ==
    /\ \A price \in Prices :
           /\ aggregate_price_to_level(price) = IntegerPart(price)
           /\ price % TicksPerUnit = 0 => aggregate_price_to_level(price) = price
    /\ \A i \in applied : IntegerPart(inserted[i].price) \in DOMAIN Depth(inserted[i].side)

\* The events of a negative price and of a positive fractional price were committed: the
\* first has its entry at level zero, the second below its price.
C15_Witness ==
    \E i, j \in applied :
        /\ inserted[i].price < 0
        /\ 0 \in DOMAIN Depth(inserted[i].side)
        /\ inserted[j].price > 0
        /\ inserted[j].price % TicksPerUnit # 0
        /\ \E l \in DOMAIN Depth(inserted[j].side) :
               l % TicksPerUnit = 0 /\ l < inserted[j].price

\* C16. Empty-state queries: a book with no insert gives (None, None) from compute_spread,
\* 0 levels on both sides and 0 orders at every price and side; a cache with no committed
\* event and no clear gives 0 at every level and side and 0 levels on both sides.
C16_EmptyQueries ==
    /\ inserted = <<>> =>
           /\ compute_spread(bids, asks) = <<None, None>>
           /\ bid_levels_count(bids) = 0
           /\ ask_levels_count(asks) = 0
           /\ \A side \in Side, price \in Prices :
                  orders_at_price_level(bids, asks, price, side) = 0
    /\ (applied = {} /\ clears = 0) =>
           \A side \in Side :
               /\ cache_levels_count(aggregated_bid_depth, aggregated_ask_depth, side) = 0
               /\ \A level \in Prices :
                      get_quantity_at_level(aggregated_bid_depth, aggregated_ask_depth,
                                            level, side) = 0

\* One thread reads the book and another the cache, both freshly constructed.
C16_Witness ==
    /\ inserted = <<>>
    /\ clears = 0
    /\ \E t, u \in Threads : pc[t] = "book_r" /\ pc[u] = "cache_r"

\* C17. clear empties the cache: when clear returns and no event was committed on the bid
\* side since clear emptied it, both maps are empty, so that both sides have 0 levels and
\* 0 at every level; an event committed to a side that clear left empty stores exactly its
\* quantity_delta.
C17_ClearEmpties ==
    [][\A t \in Threads :
          /\ (pc[t] = "clear_ask_w" /\ pc'[t] = "idle"
                  /\ applied \cap InsertedOn("Bid") = {}) =>
                 /\ aggregated_bid_depth' = EmptyMap
                 /\ aggregated_ask_depth' = EmptyMap
                 /\ \A side \in Side :
                        /\ cache_levels_count(aggregated_bid_depth', aggregated_ask_depth',
                                              side) = 0
                        /\ \A level \in Prices :
                               get_quantity_at_level(aggregated_bid_depth',
                                                     aggregated_ask_depth', level, side) = 0
          /\ (pc[t] = "apply_w" /\ pc'[t] = "idle" /\ clears > 0
                  /\ Depth(Unwrap(event[t]).side) = EmptyMap) =>
                 LET ev == Unwrap(event[t])
                 IN  (IF ev.side = "Bid" THEN aggregated_bid_depth'
                                         ELSE aggregated_ask_depth')
                         = MapInsert(EmptyMap, aggregate_price_to_level(ev.price),
                                     ev.quantity_delta)]_vars

\* clear has returned on a cache that held a bid and an ask event, and left it empty.
C17_Witness ==
    /\ clears > 0
    /\ \A t \in Threads : pc[t] = "idle"
    /\ Pending = {}
    /\ \E i, j \in 1..Len(inserted) :
           /\ inserted[i].side = "Bid" /\ inserted[i].quantity > 0
           /\ inserted[j].side = "Ask" /\ inserted[j].quantity > 0
    /\ aggregated_bid_depth = EmptyMap
    /\ aggregated_ask_depth = EmptyMap

\* C18. get_quantity_at_level gives the total stored at the level on the side asked for and
\* 0 when that side has no entry there, whatever the opposite side holds; a caller holding
\* the read lock always gets its answer, and the lookup changes neither map of the cache.
C18_QuantityAtLevel ==
    /\ [](/\ \A side \in Side, level \in Prices :
                get_quantity_at_level(aggregated_bid_depth, aggregated_ask_depth, level, side)
                    = IF level \in DOMAIN Depth(side) THEN Depth(side)[level] ELSE 0
          /\ \A t \in Threads : pc[t] = "cache_r" => ENABLED CacheQuery(t))
    /\ [][\A t \in Threads :
             (pc[t] = "cache_r" /\ pc'[t] = "idle") => UNCHANGED cacheVars]_vars

\* A caller looks up the bid side while a level has a positive total on the ask side and
\* no entry on the bid side, and the bid side has an entry at another level.
C18_Witness ==
    \E t \in Threads, level \in Levels :
        /\ pc[t] = "cache_r"
        /\ query[t] = "Bid"
        /\ level \notin DOMAIN aggregated_bid_depth
        /\ level \in DOMAIN aggregated_ask_depth
        /\ aggregated_ask_depth[level] > 0
        /\ aggregated_bid_depth # EmptyMap

\* C19. insert touches one side only: the insert of a Bid order leaves the ask map, and so
\* the best ask, as they were, and the insert of an Ask order leaves the bid map and the
\* best bid as they were.
C19_InsertOneSide ==
    [][inserted' # inserted =>
          LET order == inserted'[Len(inserted')]
          IN  /\ order.side = "Bid" =>
                     /\ asks' = asks
                     /\ compute_spread(bids', asks')[2] = compute_spread(bids, asks)[2]
              /\ order.side = "Ask" =>
                     /\ bids' = bids
                     /\ compute_spread(bids', asks')[1] = compute_spread(bids, asks)[1]]_vars

\* A Bid order was inserted at a price where an Ask order rests, and the ask side holds a
\* second price.
C19_Witness ==
    /\ Len(inserted) > 0
    /\ inserted[Len(inserted)].side = "Bid"
    /\ inserted[Len(inserted)].price \in DOMAIN asks
    /\ Cardinality(DOMAIN asks) = 2

\* The number of orders stored in a map.
RECURSIVE StoredIn(_, _)
StoredIn(m, keys) ==
    IF keys = {} THEN 0
    ELSE LET k == CHOOSE x \in keys : TRUE
         IN  Len(m[k]) + StoredIn(m, keys \ {k})

\* C20. No matching and no removal: each side stores as many orders as were inserted on
\* it, also when an insert crosses the book, and no step removes a price or shortens the
\* sequence stored at a price.
C20_NoMatchingNoRemoval ==
    /\ [](\A side \in Side :
             StoredIn(Map(side), DOMAIN Map(side)) = Cardinality(InsertedOn(side)))
    /\ [][\A side \in Side, price \in Prices :
             /\ price \in DOMAIN Map(side) => price \in DOMAIN Map(side)'
             /\ Len(Bucket(side, price)) <= Len(Bucket(side, price)')]_vars

\* The book is crossed by its latest insert in either direction: a bid went in above a
\* resting ask, then an ask went in below a resting bid.
C20_Witness ==
    \E i, j, k \in 1..Len(inserted) :
        /\ i < j /\ j < k
        /\ inserted[i].side = "Ask"
        /\ inserted[j].side = "Bid"
        /\ inserted[j].price > inserted[i].price
        /\ inserted[k].side = "Ask"
        /\ inserted[k].price < inserted[j].price
        /\ MaxKey(bids) > MinKey(asks)

\* C21. Bucket count: the level count of a side is the number of distinct exact prices
\* inserted on it so far; no step lowers it, an insert at a price new to its side raises
\* it by 1, and every other step leaves it as it was.
C21_BucketCount ==
    /\ [](/\ bid_levels_count(bids) = Cardinality(InsertedPrices("Bid"))
          /\ ask_levels_count(asks) = Cardinality(InsertedPrices("Ask")))
    /\ [][LET order == inserted'[Len(inserted')]
              isNew(side) == /\ inserted' # inserted
                             /\ order.side = side
                             /\ order.price \notin InsertedPrices(side)
          IN  /\ bid_levels_count(bids') =
                     bid_levels_count(bids) + (IF isNew("Bid") THEN 1 ELSE 0)
              /\ ask_levels_count(asks') =
                     ask_levels_count(asks) + (IF isNew("Ask") THEN 1 ELSE 0)]_vars

\* Three bids were inserted, two of them at one price: the bid side has two levels.
C21_Witness ==
    /\ Cardinality(InsertedOn("Bid")) = 3
    /\ bid_levels_count(bids) = 2
    /\ \E price \in DOMAIN bids : Len(bids[price]) = 2

\* The locks a thread holds, as a guard that writes or as a guard that reads.
LocksHeld(t) ==
    {name \in {"book", "bid", "ask"} :
        LET l == IF name = "book" THEN book_lock
                 ELSE IF name = "bid" THEN bid_depth_lock ELSE ask_depth_lock
        IN  l.writer = t \/ t \in l.readers}

\* C22. Per-side lock independence: a thread inside process_order_event holds the write
\* lock of its event's side and no other lock; while it does, a reader of the opposite
\* side takes that side's read lock unless a writer of that very side holds it, and a
\* reader that has the lock completes.
C22_SideIndependence ==
    \A t \in Threads :
        pc[t] = "apply_w" =>
            LET side == Unwrap(event[t]).side
                held == IF side = "Bid" THEN "bid" ELSE "ask"
                opposite == IF side = "Bid" THEN "Ask" ELSE "Bid"
                oppositeLock == IF side = "Bid" THEN ask_depth_lock ELSE bid_depth_lock
            IN  /\ LocksHeld(t) = {held}
                /\ \A u \in Threads :
                       /\ (pc[u] = "idle" /\ oppositeLock.writer = NoThread) =>
                              ENABLED CacheRead(u, opposite)
                       /\ pc[u] = "cache_r" => ENABLED CacheQuery(u)

\* A thread holds the bid write lock inside process_order_event while another thread
\* reads the ask side under the ask read lock.
C22_Witness ==
    \E t, u \in Threads :
        /\ pc[t] = "apply_w"
        /\ bid_depth_lock.writer = t
        /\ pc[u] = "cache_r"
        /\ query[u] = "Ask"
        /\ u \in ask_depth_lock.readers

\* C23. Book and cache never share a critical section: no thread holds the lock of the
\* book together with a lock of the cache, a thread that holds or applies an event has
\* released the book, and while it applies another thread can take the book's write lock.
C23_NoSharedCriticalSection ==
    \A t \in Threads :
        /\ "book" \in LocksHeld(t) => LocksHeld(t) = {"book"}
        /\ pc[t] \in {"have_event", "apply_w"} => "book" \notin LocksHeld(t)
        /\ pc[t] = "apply_w" =>
               \A u \in Threads :
                   (pc[u] = "idle" /\ CanWrite(book_lock) /\ Len(inserted) < MaxOrders) =>
                       ENABLED BookWrite(u, MaxOrders)

\* One thread applies its event under a cache write lock while another thread holds the
\* write lock of the book.
C23_Witness ==
    \E t, u \in Threads :
        /\ pc[t] = "apply_w"
        /\ pc[u] = "book_w"
        /\ book_lock.writer = u

\* The levels of the events committed on a side since the side was last cleared.
LevelsApplied(side) ==
    {aggregate_price_to_level(inserted[i].price) : i \in applied \cap InsertedOn(side)}

\* C24. Cache key set: a side of the cache has an entry at a level exactly when an event
\* of that side and level was committed since construction or the last clear, events of
\* quantity_delta 0 included, and the level count of the side is the number of those
\* levels.
C24_CacheKeySet ==
    \A side \in Side :
        /\ DOMAIN Depth(side) = LevelsApplied(side)
        /\ cache_levels_count(aggregated_bid_depth, aggregated_ask_depth, side)
               = Cardinality(LevelsApplied(side))

\* An event of quantity_delta 0 was committed: its entry holds 0, and the opposite side,
\* which has an entry at another level, has none at that level.
C24_Witness ==
    \E i \in applied :
        LET side == inserted[i].side
            opposite == IF side = "Bid" THEN "Ask" ELSE "Bid"
            level == aggregate_price_to_level(inserted[i].price)
        IN  /\ inserted[i].quantity = 0
            /\ level \in DOMAIN Depth(side)
            /\ Depth(side)[level] = 0
            /\ level \notin DOMAIN Depth(opposite)
            /\ Depth(opposite) # EmptyMap

\* C25. Frame of apply: the step in which process_order_event leaves its critical section
\* changes, on the side of its event, at most the entry at the level of its event, and
\* changes neither the opposite side nor the book; no step of an insert or of a query of
\* the book changes the cache.
C25_FrameOfApply ==
    [][\A t \in Threads :
          /\ (pc[t] = "apply_w" /\ pc'[t] # "apply_w") =>
                 LET ev == Unwrap(event[t])
                     level == aggregate_price_to_level(ev.price)
                     old == IF ev.side = "Bid" THEN aggregated_bid_depth
                                               ELSE aggregated_ask_depth
                     new == IF ev.side = "Bid" THEN aggregated_bid_depth'
                                               ELSE aggregated_ask_depth'
                 IN  /\ DOMAIN new \ {level} = DOMAIN old \ {level}
                     /\ \A l \in DOMAIN old \ {level} : new[l] = old[l]
                     /\ ev.side = "Bid" => aggregated_ask_depth' = aggregated_ask_depth
                     /\ ev.side = "Ask" => aggregated_bid_depth' = aggregated_bid_depth
                     /\ UNCHANGED bookVars
          /\ (pc[t] # pc'[t] /\ (pc[t] \in {"book_w", "book_r"}
                                    \/ pc'[t] \in {"book_w", "book_r"})) =>
                 UNCHANGED cacheVars]_vars

\* Both events were committed on one side, at two levels, each level holding the delta of
\* its own event.
C25_Witness ==
    \E side \in Side :
        /\ Cardinality(DOMAIN Depth(side)) = 2
        /\ applied = {1, 2}
        /\ \A i \in applied :
               Depth(side)[aggregate_price_to_level(inserted[i].price)]
                   = inserted[i].quantity

\* C26. The cache never leads the book: with every caller applying the event of its insert
\* and clear never called, the total stored at a side and level is at most the quantity
\* resting in the book on that side at the prices of that level, and equals it when no
\* returned event still waits to be applied.
C26_CacheNeverLeads ==
    clears = 0 =>
        \A side \in Side, level \in Levels :
            LET cached == get_quantity_at_level(aggregated_bid_depth, aggregated_ask_depth,
                                                level, side)
            IN  /\ cached <= RestingAtLevel(side, level)
                /\ Pending = {} => cached = RestingAtLevel(side, level)

\* C27. Snapshot concurrent with clear: the pair returned by a snapshot call during which
\* no event was committed is a pair (bid map, ask map) that the cache held, both sides
\* together, at one instant of the call.
C27_SnapshotInstant ==
    [][\A t \in Threads :
          (pc[t] = "snap_ask_r" /\ pc'[t] = "ret" /\ ~snapshot_call[t].apply) =>
              ret'[t].val \in snapshot_call[t].instants]_vars

\* The book obtained by inserting the first k orders, in the order of insertion, into an
\* empty book.
RECURSIVE BookAfter(_)
BookAfter(k) ==
    IF k = 0 THEN [bids |-> EmptyMap, asks |-> EmptyMap]
    ELSE LET r == insert_order(BookAfter(k - 1).bids, BookAfter(k - 1).asks, inserted[k])
         IN  [bids |-> r.bids, asks |-> r.asks]

\* C28. Readers of the book see whole insertions: while a thread holds the read lock of
\* the book no thread is inside an insert, and what the queries return is what they return
\* on the book built from all the inserts made so far, in their order; no bucket is empty.
C28_WholeInsertions ==
    \A t \in Threads :
        pc[t] = "book_r" =>
            LET whole == BookAfter(Len(inserted))
            IN  /\ book_lock.writer = NoThread
                /\ \A u \in Threads : pc[u] # "book_w"
                /\ compute_spread(bids, asks) = compute_spread(whole.bids, whole.asks)
                /\ bid_levels_count(bids) = bid_levels_count(whole.bids)
                /\ ask_levels_count(asks) = ask_levels_count(whole.asks)
                /\ \A side \in Side, price \in Prices :
                       orders_at_price_level(bids, asks, price, side)
                           = orders_at_price_level(whole.bids, whole.asks, price, side)
                /\ \A side \in Side : \A price \in DOMAIN Map(side) : Map(side)[price] # <<>>

\* A thread reads a book of two inserts while the other thread, whose insert is over,
\* still holds its event, and a third insert is yet to come.
C28_Witness ==
    \E t, u \in Threads :
        /\ pc[t] = "book_r"
        /\ pc[u] = "have_event"
        /\ event_id[u] = 2
        /\ Len(inserted) = 2
        /\ DOMAIN bids # {}
        /\ DOMAIN asks # {}

\* C29. Deadlock freedom and termination: no thread ever holds more than one lock, a thread
\* that waits for a lock holds none, and with finitely many operations to perform every
\* thread comes to rest for good.
C29_TerminatesNoDeadlock ==
    /\ [](\A t \in Threads :
             /\ Cardinality(LocksHeld(t)) <= 1
             /\ pc[t] \in {"idle", "have_event", "snap_ask", "clear_ask", "ret",
                           "panicked", "new_panicked"} => LocksHeld(t) = {})
    /\ <>[]AllFinished

\* Every thread is at rest, no lock is held, and the inserts, the reads and the clear were
\* all made.
C29_Witness ==
    /\ AllFinished
    /\ Len(inserted) = MaxOrders
    /\ budget = 0
    /\ clears = MaxClears
    /\ Pending = {}
    /\ \A t \in Threads : LocksHeld(t) = {}

\* The level of an optional price.
LevelOf(price) ==
    IF price = None THEN None ELSE Some(aggregate_price_to_level(Unwrap(price)))

\* C30. Best price and best level agree: when every event was committed and clear was
\* never called, the largest bid level of the cache is the level of the best bid and the
\* smallest ask level of the cache is the level of the best ask, None on a side that is
\* empty in the book.
C30_BestLevelAgrees ==
    (applied = 1..Len(inserted) /\ clears = 0) =>
        /\ LastKey(aggregated_bid_depth) = LevelOf(compute_spread(bids, asks)[1])
        /\ FirstKey(aggregated_ask_depth) = LevelOf(compute_spread(bids, asks)[2])
        /\ aggregated_bid_depth = EmptyMap <=> bids = EmptyMap
        /\ aggregated_ask_depth = EmptyMap <=> asks = EmptyMap

\* Both events were committed: the best ask is a negative price, which lies below its
\* level, and the best bid is a fractional price, which lies above its level.
C30_Witness ==
    /\ applied = 1..Len(inserted)
    /\ clears = 0
    /\ compute_spread(bids, asks)[1] # None
    /\ compute_spread(bids, asks)[2] # None
    /\ Unwrap(compute_spread(bids, asks)[2]) < 0
    /\ Unwrap(FirstKey(aggregated_ask_depth)) > Unwrap(compute_spread(bids, asks)[2])
    /\ Unwrap(LastKey(aggregated_bid_depth)) < Unwrap(compute_spread(bids, asks)[1])

\* C31. aggregate_price_to_level is idempotent: the level of a level is that level, for
\* every price and for every key the cache holds, and the commit of an event whose price
\* is already a level leaves its entry at that very price and creates no other entry.
C31_AggregateIdempotent ==
    /\ [](/\ \A price \in Prices :
                aggregate_price_to_level(aggregate_price_to_level(price))
                    = aggregate_price_to_level(price)
          /\ \A side \in Side : \A level \in DOMAIN Depth(side) :
                aggregate_price_to_level(level) = level)
    /\ [][\A t \in Threads :
             (pc[t] = "apply_w" /\ pc'[t] = "idle"
                  /\ Unwrap(event[t]).price % TicksPerUnit = 0) =>
                 LET ev == Unwrap(event[t])
                     old == IF ev.side = "Bid" THEN aggregated_bid_depth
                                               ELSE aggregated_ask_depth
                     new == IF ev.side = "Bid" THEN aggregated_bid_depth'
                                               ELSE aggregated_ask_depth'
                 IN  /\ DOMAIN new = DOMAIN old \cup {ev.price}
                     /\ \A l \in DOMAIN old \ {ev.price} : new[l] = old[l]]_vars

\* The event of a whole price other than zero was committed and has its entry at that
\* price, next to the entry of a fractional price of another level.
C31_Witness ==
    \E i, j \in applied :
        /\ inserted[i].price % TicksPerUnit = 0
        /\ inserted[i].price # 0
        /\ inserted[i].price \in DOMAIN Depth(inserted[i].side)
        /\ inserted[j].side = inserted[i].side
        /\ inserted[j].price % TicksPerUnit # 0
        /\ Cardinality(DOMAIN Depth(inserted[i].side)) = 2

\* ------------------------------------------------------------ what C2, C3, C4, C8 rest on
\* No level of a side has received more than a u64 holds.
NoLevelOverflows ==
    \A side \in Side, level \in Levels : SumQuantity(InLevel(side, level)) <= U64Max

\* The four statements hold in every reachable state in which no level's sum passes
\* U64Max: the overflow of the addition in process_order_event is their only failure.
SumsHoldWithoutOverflow ==
    NoLevelOverflows =>
        /\ C2_StoredEqualsSum
        /\ C3_NoLostUpdates
        /\ C4_AggregationCorrect
        /\ C8_Commutative

\* The cache follows the book, as C26 states, in every reachable state in which no
\* level's sum passes U64Max.
CacheNeverLeadsWithoutOverflow == NoLevelOverflows => C26_CacheNeverLeads

\* Every step is additive in the states in which no level's sum passes U64Max.
ApplyAdditiveWithoutOverflow == [][NoLevelOverflows => ApplyAdditiveStep]_vars

====
